---- MODULE Spec2Model ----
(***************************************************************************)
(* rxbanish: hides the X11 pointer while typing (src/src/main.rs).         *)
(*                                                                         *)
(* The model follows main() from the point where the connection is open:   *)
(* the XFixes version check, snoop_xinput (XInput version query, raw event *)
(* selection, device enumeration, device-presence subscription) and the    *)
(* event loop.  Every protocol request the program sends is appended to    *)
(* reqs, together with whether the server accepted it; a request that      *)
(* fails makes the `?` operator return from main with an error.            *)
(***************************************************************************)
EXTENDS Integers, Sequences, FiniteSets, TLC

(***************************************************************************)
(* Bounds of the model.                                                    *)
(***************************************************************************)
\* number of events the loop receives in a behaviour
MaxEvents == 3
\* longest class list drawn for the device classification specification
MaxClasses == 2
\* longest list of modifier names drawn for the mask specification
MaxMods == 2

(***************************************************************************)
(* Integer types of the program.                                           *)
(***************************************************************************)
U8Limit == 256

RECURSIVE BitAnd(_, _)
BitAnd(a, b) ==
    IF a = 0 \/ b = 0 THEN 0
    ELSE (a % 2) * (b % 2) + 2 * BitAnd(a \div 2, b \div 2)

RECURSIVE BitOr(_, _)
BitOr(a, b) ==
    IF a = 0 THEN b
    ELSE IF b = 0 THEN a
    ELSE (IF a % 2 = 1 \/ b % 2 = 1 THEN 1 ELSE 0)
         + 2 * BitOr(a \div 2, b \div 2)

(***************************************************************************)
(* KeyButMask and the command line's modifier names.                       *)
(***************************************************************************)
\* every bit KeyButMask defines: SHIFT .. MOD5 (0x01 .. 0x80) and
\* BUTTON1 .. BUTTON5 (0x100 .. 0x1000)
KeyButMaskAllBits == 8191

from_bits_truncate(bits) == BitAnd(bits, KeyButMaskAllBits)

ModNames == {"Shift", "Caps", "Ctrl", "Mod1", "Mod2", "Mod3", "Mod4", "All"}

\* Mod with All covering every bit of KeyButMask
Mod_all_bits(m) ==
    CASE m = "Shift" -> 1
      [] m = "Caps"  -> 2
      [] m = "Ctrl"  -> 4
      [] m = "Mod1"  -> 8
      [] m = "Mod2"  -> 16
      [] m = "Mod3"  -> 32
      [] m = "Mod4"  -> 64
      [] m = "All"   -> 8191

Mod(m) ==
    CASE m = "Shift" -> 1
      [] m = "Caps"  -> 2
      [] m = "Ctrl"  -> 4
      [] m = "Mod1"  -> 8
      [] m = "Mod2"  -> 16
      [] m = "Mod3"  -> 32
      [] m = "Mod4"  -> 64
      [] m = "All"   ->
            BitOr(1, BitOr(2, BitOr(4, BitOr(8, BitOr(16, BitOr(32, 64))))))

RECURSIVE FoldMods(_, _)
FoldMods(a, mods) ==
    IF mods = <<>> THEN a
    ELSE FoldMods(BitOr(a, Mod(Head(mods))), Tail(mods))

\* let ignored_mods = KeyButMask::from_bits_truncate(fold(0, |a, b| a | b))
IgnoredMods(ignore_mod) == from_bits_truncate(FoldMods(0, ignore_mod))

\* e.state().intersects(ignored_mods)
intersects(a, b) == BitAnd(a, b) # 0

\* command lines the model starts from
IgnoreModArgs == {<<>>, <<"Shift">>, <<"Ctrl", "All">>}

\* modifier/button state carried by a key-release event:
\* none, SHIFT, SHIFT|CONTROL, BUTTON1
KeyStates == {0, 1, 5, 256}

(***************************************************************************)
(* Protocol requests, as recorded in reqs.                                 *)
(***************************************************************************)
Req(name, ok) == [name |-> name, ok |-> ok]

DevReq(name, device_id, ok) == [name |-> name, device_id |-> device_id, ok |-> ok]

SelectReq(classes, ok) ==
    [name |-> "SelectExtensionEvent", classes |-> classes, ok |-> ok]

\* the requests rs as entries of reqs: each carries the number of events
\* main() had received when it was sent (0 during startup)
Sent(rs, turn) == [i \in 1..Len(rs) |-> rs[i] @@ [turn |-> turn]]

\* const DEVICE_PRESENCE: u32 = 0x1_0000
DEVICE_PRESENCE == 65536

(***************************************************************************)
(* snoop_device and make_event_code.                                       *)
(***************************************************************************)
\* u32::from(device_id) << 8 | u32::from(event_type)
\* (both operands come from u8, so the u32 result is below 2^16)
make_event_code(device_id, event_type) ==
    BitOr(device_id * 256, event_type)

\* c.event_type_base() + 1 on u8: with overflow checks the addition panics
\* when the sum leaves the type, without them it wraps.
AddOverflows(a, b) == a + b >= U8Limit

AddU8(a, b) == (a + b) % U8Limit

\* ClassCodes with the button arm not skipped under raw motion
ClassCodes_button_always(rawmotion_, device_id, c) ==
    CASE c.class_id = "Key" ->
            <<make_event_code(device_id, AddU8(c.event_type_base, 1))>>
      [] c.class_id = "Valuator" ->
            IF rawmotion_ THEN <<>>
            ELSE <<make_event_code(device_id, c.event_type_base)>>
      [] c.class_id = "Button" ->
            <<make_event_code(device_id, c.event_type_base),
              make_event_code(device_id, AddU8(c.event_type_base, 1))>>
      [] OTHER -> <<>>

\* ClassCodes with the key arm pushing the press code, not the release code
ClassCodes_key_press(rawmotion_, device_id, c) ==
    CASE c.class_id = "Key" ->
            <<make_event_code(device_id, c.event_type_base)>>
      [] c.class_id = "Valuator" ->
            IF rawmotion_ THEN <<>>
            ELSE <<make_event_code(device_id, c.event_type_base)>>
      [] c.class_id = "Button" ->
            IF rawmotion_ THEN <<>>
            ELSE <<make_event_code(device_id, c.event_type_base),
                   make_event_code(device_id, AddU8(c.event_type_base, 1))>>
      [] OTHER -> <<>>

\* the codes one class contributes to event_list
ClassCodes(rawmotion_, device_id, c) ==
    CASE c.class_id = "Key" ->
            <<make_event_code(device_id, AddU8(c.event_type_base, 1))>>
      [] c.class_id = "Valuator" ->
            IF rawmotion_ THEN <<>>
            ELSE <<make_event_code(device_id, c.event_type_base)>>
      [] c.class_id = "Button" ->
            IF rawmotion_ THEN <<>>
            ELSE <<make_event_code(device_id, c.event_type_base),
                   make_event_code(device_id, AddU8(c.event_type_base, 1))>>
      [] OTHER -> <<>>

\* does building the codes of class c evaluate an overflowing base + 1
ClassOverflows(rawmotion_, c) ==
    /\ AddOverflows(c.event_type_base, 1)
    /\ \/ c.class_id = "Key"
       \/ c.class_id = "Button" /\ ~rawmotion_

\* the loop over dev_reply.class_info(): the list built, and whether the
\* loop panicked on the way
RECURSIVE EventList(_, _, _, _)
EventList(rawmotion_, checks, device_id, classes) ==
    IF classes = <<>> THEN [panic |-> FALSE, list |-> <<>>]
    ELSE IF checks /\ ClassOverflows(rawmotion_, Head(classes))
    THEN [panic |-> TRUE, list |-> <<>>]
    ELSE LET rest == EventList(rawmotion_, checks, device_id, Tail(classes))
         IN  [panic |-> rest.panic,
              list |-> ClassCodes(rawmotion_, device_id, Head(classes)) \o rest.list]

\* snoop_device with the subscription sent while the device is still open
snoop_device_close_last(rawmotion_, checks, device_id, classes, open_ok, close_ok, select_ok) ==
    LET el == EventList(rawmotion_, checks, device_id, classes)
        open == DevReq("OpenDevice", device_id, open_ok)
        close == DevReq("CloseDevice", device_id, close_ok)
        select == SelectReq(el.list, select_ok)
    IN  IF ~open_ok THEN [sent |-> <<open>>, end |-> "err"]
        ELSE IF el.panic THEN [sent |-> <<open>>, end |-> "panic"]
        ELSE IF ~select_ok THEN [sent |-> <<open, select>>, end |-> "err"]
        ELSE IF ~close_ok THEN [sent |-> <<open, select, close>>, end |-> "err"]
        ELSE [sent |-> <<open, select, close>>, end |-> "ok"]

\* snoop_device with the subscription skipped when event_list is empty
snoop_device_skips_empty(rawmotion_, checks, device_id, classes, open_ok, close_ok, select_ok) ==
    LET el == EventList(rawmotion_, checks, device_id, classes)
        open == DevReq("OpenDevice", device_id, open_ok)
        close == DevReq("CloseDevice", device_id, close_ok)
        select == SelectReq(el.list, select_ok)
    IN  IF ~open_ok THEN [sent |-> <<open>>, end |-> "err"]
        ELSE IF el.panic THEN [sent |-> <<open>>, end |-> "panic"]
        ELSE IF ~close_ok THEN [sent |-> <<open, close>>, end |-> "err"]
        ELSE IF el.list = <<>> THEN [sent |-> <<open, close>>, end |-> "ok"]
        ELSE IF ~select_ok THEN [sent |-> <<open, close, select>>, end |-> "err"]
        ELSE [sent |-> <<open, close, select>>, end |-> "ok"]

\* snoop_device: the requests it sends and how it ends ("ok", "err" from a
\* failed request, "panic").  open_ok, close_ok and select_ok are the
\* server's answers to the three requests.
snoop_device(rawmotion_, checks, device_id, classes, open_ok, close_ok, select_ok) ==
    LET el == EventList(rawmotion_, checks, device_id, classes)
        open == DevReq("OpenDevice", device_id, open_ok)
        close == DevReq("CloseDevice", device_id, close_ok)
        select == SelectReq(el.list, select_ok)
    IN  IF ~open_ok THEN [sent |-> <<open>>, end |-> "err"]
        ELSE IF el.panic THEN [sent |-> <<open>>, end |-> "panic"]
        ELSE IF ~close_ok THEN [sent |-> <<open, close>>, end |-> "err"]
        ELSE IF ~select_ok THEN [sent |-> <<open, close, select>>, end |-> "err"]
        ELSE [sent |-> <<open, close, select>>, end |-> "ok"]

\* the server's possible answers to the three requests of snoop_device:
\* all accepted, or the first, second or third refused
Answers == {<<TRUE, TRUE, TRUE>>, <<FALSE, TRUE, TRUE>>,
            <<TRUE, FALSE, TRUE>>, <<TRUE, TRUE, FALSE>>}

(***************************************************************************)
(* What the server may report.                                             *)
(***************************************************************************)
Class(class_id, event_type_base) ==
    [class_id |-> class_id, event_type_base |-> event_type_base]

InputClasses == {"Key", "Button", "Valuator", "Feedback", "Proximity", "Focus", "Other"}

\* class lists an OpenDevice reply carries in the program specification
ClassLists ==
    { <<Class("Key", 70)>>,
      <<Class("Button", 72), Class("Valuator", 74)>>,
      <<Class("Focus", 78), Class("Valuator", 74), Class("Key", 70)>> }

DevInfo(device_id, device_use) ==
    [device_id |-> device_id, device_use |-> device_use]

\* replies to ListInputDevices
DeviceLists ==
    { <<>>,
      <<DevInfo(2, "IsXPointer"), DevInfo(4, "IsXExtensionKeyboard")>>,
      <<DevInfo(5, "IsXExtensionPointer"), DevInfo(6, "IsXExtensionDevice")>>,
      <<DevInfo(4, "IsXExtensionKeyboard"), DevInfo(3, "IsXKeyboard"),
        DevInfo(5, "IsXExtensionPointer")>> }

\* class lists the OpenDevice reply of a listed device carries
ListedClassLists(devinfo) ==
    IF devinfo.device_use = "IsXExtensionKeyboard"
    THEN {<<Class("Key", 70)>>}
    ELSE {<<Class("Button", 72), Class("Valuator", 74)>>}

\* device ids of presence notifications
HotplugIds == {7}

DeviceChanges == {"Added", "Removed", "Enabled", "Disabled"}

\* major versions the XFixes reply may carry
XFixesMajors == {3, 4, 6}

(***************************************************************************)
(* State.                                                                  *)
(***************************************************************************)
VARIABLES
    pc,              \* where main() is: "xfixes", "xi_query", "list_devices",
                     \* "enumerate", "loop", or "exit" once it has returned;
                     \* "args" before the mask is folded; "snoop_device" and
                     \* "returned" around one call of snoop_device
    err,             \* the error main() returned with, "none" while it runs
    ignore_mod,      \* main: args.ignore_mod
    ignored_mods,    \* main: ignored_mods
    rawmotion,       \* snoop_xinput: rawmotion, then main: rawmotion
    devices,         \* snoop_xinput: the devices of list_reply still to visit
    class_info,      \* snoop_device: class_info() of the last OpenDevice reply
    state,           \* main: state
    event,           \* main: the event wait_for_event returned last
    nevents,         \* number of events received
    reqs             \* every request sent so far, with the server's answer

vars == <<pc, err, ignore_mod, ignored_mods, rawmotion, devices,
          class_info, state, event, nevents, reqs>>

NoEvent == [kind |-> "None"]

Init ==
    /\ pc = "xfixes"
    /\ err = "none"
    /\ ignore_mod \in IgnoreModArgs
    /\ ignored_mods = IgnoredMods(ignore_mod)
    /\ rawmotion = FALSE
    /\ devices = <<>>
    /\ class_info = <<>>
    /\ state = "Shown"
    /\ event = NoEvent
    /\ nevents = 0
    /\ reqs = <<>>

\* `?` on a failed request, bail!, or a panic: main() is over
Fail(why) ==
    /\ pc' = "exit"
    /\ err' = why

(***************************************************************************)
(* Startup: main() up to the loop, and snoop_xinput.                       *)
(***************************************************************************)
\* the QueryVersion request with its reply: a refused request carries no
\* version (recorded as 0)
VersionReq(ok, major_version) ==
    Req("QueryVersion", ok) @@ [major_version |-> IF ok THEN major_version ELSE 0]

\* the XFixes version check without the test of the major version
XFixesQueryVersion_no_version_test ==
    /\ pc = "xfixes"
    /\ \E ok \in BOOLEAN, major_version \in XFixesMajors :
          /\ reqs' = reqs \o Sent(<<VersionReq(ok, major_version)>>, 0)
          /\ IF ~ok THEN Fail("QueryVersion")
             ELSE pc' = "xi_query" /\ err' = err
    /\ UNCHANGED <<ignore_mod, ignored_mods, rawmotion, devices,
                   class_info, state, event, nevents>>

\* the XFixes version check
XFixesQueryVersion ==
    /\ pc = "xfixes"
    /\ \E ok \in BOOLEAN, major_version \in XFixesMajors :
          /\ reqs' = reqs \o Sent(<<VersionReq(ok, major_version)>>, 0)
          /\ IF ~ok THEN Fail("QueryVersion")
             ELSE IF major_version < 4
             THEN Fail("No compatible Xfixes version available")
             ELSE pc' = "xi_query" /\ err' = err
    /\ UNCHANGED <<ignore_mod, ignored_mods, rawmotion, devices,
                   class_info, state, event, nevents>>

\* XiQueryVersion with the error of the version query propagated by `?`
XiQueryVersion_query_error_fatal ==
    /\ pc = "xi_query"
    /\ \E query_ok \in BOOLEAN, select_ok \in BOOLEAN :
          IF ~query_ok
          THEN /\ reqs' = reqs \o Sent(<<Req("XiQueryVersion", FALSE)>>, 0)
               /\ rawmotion' = FALSE
               /\ Fail("XiQueryVersion")
          ELSE /\ reqs' = reqs \o Sent(<<Req("XiQueryVersion", TRUE),
                                         Req("XiSelectEvents", select_ok)>>, 0)
               /\ IF select_ok
                  THEN rawmotion' = TRUE /\ pc' = "list_devices" /\ err' = err
                  ELSE rawmotion' = rawmotion /\ Fail("XiSelectEvents")
    /\ UNCHANGED <<ignore_mod, ignored_mods, devices, class_info, state,
                   event, nevents>>

\* snoop_xinput: XiQueryVersion and, when it succeeds, XiSelectEvents
XiQueryVersion ==
    /\ pc = "xi_query"
    /\ \E query_ok \in BOOLEAN, select_ok \in BOOLEAN :
          IF ~query_ok
          THEN /\ reqs' = reqs \o Sent(<<Req("XiQueryVersion", FALSE)>>, 0)
               /\ rawmotion' = FALSE
               /\ pc' = "list_devices"
               /\ err' = err
          ELSE /\ reqs' = reqs \o Sent(<<Req("XiQueryVersion", TRUE),
                                         Req("XiSelectEvents", select_ok)>>, 0)
               /\ IF select_ok
                  THEN rawmotion' = TRUE /\ pc' = "list_devices" /\ err' = err
                  ELSE rawmotion' = rawmotion /\ Fail("XiSelectEvents")
    /\ UNCHANGED <<ignore_mod, ignored_mods, devices, class_info, state,
                   event, nevents>>

\* the ListInputDevices request with the devices of its reply
ListReq(ok, list_reply) ==
    Req("ListInputDevices", ok) @@ [devices |-> IF ok THEN list_reply ELSE <<>>]

\* snoop_xinput: ListInputDevices
ListInputDevices ==
    /\ pc = "list_devices"
    /\ \E ok \in BOOLEAN, list_reply \in DeviceLists :
          /\ reqs' = reqs \o Sent(<<ListReq(ok, list_reply)>>, 0)
          /\ IF ok
             THEN devices' = list_reply /\ pc' = "enumerate" /\ err' = err
             ELSE devices' = devices /\ Fail("ListInputDevices")
    /\ UNCHANGED <<ignore_mod, ignored_mods, rawmotion, class_info,
                   state, event, nevents>>

\* IsExtensionInput taking every extension device
IsExtensionInput_any_extension(devinfo) ==
    devinfo.device_use \in {"IsXExtensionKeyboard", "IsXExtensionPointer",
                            "IsXExtensionDevice"}

IsExtensionInput(devinfo) ==
    devinfo.device_use \in {"IsXExtensionKeyboard", "IsXExtensionPointer"}

\* how a failed snoop_device ends main(): the error of the request that
\* failed, or the panic
SnoopError(r) ==
    IF r.end = "panic" THEN "panic" ELSE r.sent[Len(r.sent)].name

\* EnumerateDevice with the result of snoop_device dropped
EnumerateDevice_result_dropped ==
    /\ pc = "enumerate"
    /\ devices # <<>>
    /\ devices' = Tail(devices)
    /\ LET devinfo == Head(devices) IN
       IF ~IsExtensionInput(devinfo)
       THEN UNCHANGED <<pc, err, class_info, reqs>>
       ELSE \E classes \in ListedClassLists(devinfo), a \in Answers,
               checks \in BOOLEAN :
               LET r == snoop_device(rawmotion, checks, devinfo.device_id,
                                     classes, a[1], a[2], a[3])
               IN  /\ reqs' = reqs \o Sent(r.sent, 0)
                   /\ class_info' = IF a[1] THEN classes ELSE class_info
                   /\ pc' = pc /\ err' = err
    /\ UNCHANGED <<ignore_mod, ignored_mods, rawmotion, state, event, nevents>>

\* snoop_xinput: one turn of the loop over list_reply.devices()
EnumerateDevice ==
    /\ pc = "enumerate"
    /\ devices # <<>>
    /\ devices' = Tail(devices)
    /\ LET devinfo == Head(devices) IN
       IF ~IsExtensionInput(devinfo)
       THEN UNCHANGED <<pc, err, class_info, reqs>>
       ELSE \E classes \in ListedClassLists(devinfo), a \in Answers,
               checks \in BOOLEAN :
               LET r == snoop_device(rawmotion, checks, devinfo.device_id,
                                     classes, a[1], a[2], a[3])
               IN  /\ reqs' = reqs \o Sent(r.sent, 0)
                   /\ class_info' = IF a[1] THEN classes ELSE class_info
                   /\ IF r.end = "ok" THEN pc' = pc /\ err' = err
                      ELSE Fail(SnoopError(r))
    /\ UNCHANGED <<ignore_mod, ignored_mods, rawmotion, state, event, nevents>>

\* snoop_xinput: the device-presence subscription, then back in main
SelectDevicePresence ==
    /\ pc = "enumerate"
    /\ devices = <<>>
    /\ \E ok \in BOOLEAN :
          /\ reqs' = reqs \o Sent(<<SelectReq(<<DEVICE_PRESENCE>>, ok)>>, 0)
          /\ IF ok THEN pc' = "loop" /\ err' = err
             ELSE Fail("SelectExtensionEvent")
    /\ UNCHANGED <<ignore_mod, ignored_mods, rawmotion, devices,
                   class_info, state, event, nevents>>

(***************************************************************************)
(* The event loop of main().                                               *)
(***************************************************************************)
PointerKinds ==
    {"RawMotion", "RawButtonPress", "DeviceValuator", "DeviceMotionNotify",
     "DeviceButtonPress", "DeviceButtonRelease"}

\* events that reach the last arm of the match
OtherKinds == {"DeviceKeyPress"}

\* target_state with the test of the key-release arm inverted
target_state_inverted_test(st, ev, ignored) ==
    CASE ev.kind \in PointerKinds -> "Shown"
      [] ev.kind = "DeviceKeyRelease" ->
            IF intersects(ev.state, ignored) THEN "Hidden" ELSE st
      [] OTHER -> st

\* target_state without the test of the key-release arm
target_state_no_filter(st, ev, ignored) ==
    CASE ev.kind \in PointerKinds -> "Shown"
      [] ev.kind = "DeviceKeyRelease" -> "Hidden"
      [] OTHER -> st

\* target_state with only the raw events in the first arm
target_state_raw_only(st, ev, ignored) ==
    CASE ev.kind \in {"RawMotion", "RawButtonPress"} -> "Shown"
      [] ev.kind = "DeviceKeyRelease" ->
            IF intersects(ev.state, ignored) THEN st ELSE "Hidden"
      [] OTHER -> st

\* target_state with DevicePresenceNotify in the first arm
target_state_presence_shows(st, ev, ignored) ==
    CASE ev.kind \in PointerKinds \cup {"DevicePresenceNotify"} -> "Shown"
      [] ev.kind = "DeviceKeyRelease" ->
            IF intersects(ev.state, ignored) THEN st ELSE "Hidden"
      [] OTHER -> st

\* target_state with the last two arms hiding the pointer
target_state_other_hides(st, ev, ignored) ==
    CASE ev.kind \in PointerKinds -> "Shown"
      [] ev.kind = "DeviceKeyRelease" ->
            IF intersects(ev.state, ignored) THEN st ELSE "Hidden"
      [] ev.kind = "DevicePresenceNotify" -> st
      [] OTHER -> "Hidden"

\* let target_state = match conn.wait_for_event()? { ... }
target_state(st, ev, ignored) ==
    CASE ev.kind \in PointerKinds -> "Shown"
      [] ev.kind = "DeviceKeyRelease" ->
            IF intersects(ev.state, ignored) THEN st ELSE "Hidden"
      [] OTHER -> st

\* cursor_command without the comparison with the current state
cursor_command_unconditional(st, target) ==
    IF target = "Hidden" THEN "HideCursor" ELSE "ShowCursor"

\* match (state, target_state): the request to send, "none" for the `_` arm
cursor_command(st, target) ==
    CASE st = "Shown" /\ target = "Hidden" -> "HideCursor"
      [] st = "Hidden" /\ target = "Shown" -> "ShowCursor"
      [] OTHER -> "none"

\* EndOfTurn without the assignment state = target_state
EndOfTurn_state_not_assigned(sent, target) ==
    LET cmd == cursor_command(state, target) IN
    IF cmd = "none"
    THEN /\ reqs' = reqs \o Sent(sent, nevents')
         /\ UNCHANGED <<pc, err, state>>
    ELSE \E cmd_ok \in BOOLEAN :
            /\ reqs' = reqs \o Sent(sent \o <<Req(cmd, cmd_ok)>>, nevents')
            /\ state' = state
            /\ IF cmd_ok THEN UNCHANGED <<pc, err>> ELSE Fail(cmd)

\* EndOfTurn with the state assigned but the cursor request left unsent
EndOfTurn_command_not_sent(sent, target) ==
    /\ reqs' = reqs \o Sent(sent, nevents')
    /\ state' = target
    /\ UNCHANGED <<pc, err>>

\* EndOfTurn with the result of show_pointer / hide_pointer dropped
EndOfTurn_result_dropped(sent, target) ==
    LET cmd == cursor_command(state, target) IN
    IF cmd = "none"
    THEN /\ reqs' = reqs \o Sent(sent, nevents')
         /\ state' = target
         /\ UNCHANGED <<pc, err>>
    ELSE \E cmd_ok \in BOOLEAN :
            /\ reqs' = reqs \o Sent(sent \o <<Req(cmd, cmd_ok)>>, nevents')
            /\ state' = target
            /\ UNCHANGED <<pc, err>>

\* the end of a loop turn, after the arm has sent the requests `sent`: the
\* match on (state, target_state) and the assignment to state.  cmd_ok is
\* the server's answer to the cursor request.
EndOfTurn(sent, target) ==
    LET cmd == cursor_command(state, target) IN
    IF cmd = "none"
    THEN /\ reqs' = reqs \o Sent(sent, nevents')
         /\ state' = target
         /\ UNCHANGED <<pc, err>>
    ELSE \E cmd_ok \in BOOLEAN :
            /\ reqs' = reqs \o Sent(sent \o <<Req(cmd, cmd_ok)>>, nevents')
            /\ IF cmd_ok THEN state' = target /\ UNCHANGED <<pc, err>>
               ELSE state' = state /\ Fail(cmd)

Receive(ev) ==
    /\ pc = "loop"
    /\ nevents < MaxEvents
    /\ nevents' = nevents + 1
    /\ event' = ev

\* conn.wait_for_event()? returns an error
WaitForEventFails ==
    /\ pc = "loop"
    /\ Fail("wait_for_event")
    /\ UNCHANGED <<ignore_mod, ignored_mods, rawmotion, devices,
                   class_info, state, event, nevents, reqs>>

\* raw motion, raw button press, device valuator / motion / button events
PointerActivity ==
    \E kind \in PointerKinds :
       LET ev == [kind |-> kind] IN
       /\ Receive(ev)
       /\ EndOfTurn(<<>>, target_state(state, ev, ignored_mods))
       /\ UNCHANGED <<ignore_mod, ignored_mods, rawmotion, devices,
                      class_info>>

DeviceKeyRelease ==
    \E s \in KeyStates :
       LET ev == [kind |-> "DeviceKeyRelease", state |-> s] IN
       /\ Receive(ev)
       /\ EndOfTurn(<<>>, target_state(state, ev, ignored_mods))
       /\ UNCHANGED <<ignore_mod, ignored_mods, rawmotion, devices,
                      class_info>>

\* DevicePresenceNotify with the result of snoop_device dropped
DevicePresenceNotify_result_dropped ==
    \E devchange \in DeviceChanges, device_id \in HotplugIds :
       LET ev == [kind |-> "DevicePresenceNotify", devchange |-> devchange,
                  device_id |-> device_id]
       IN  /\ Receive(ev)
           /\ IF ev.devchange = "Enabled"
              THEN \E classes \in ClassLists, a \in Answers, checks \in BOOLEAN :
                      LET r == snoop_device(rawmotion, checks, ev.device_id,
                                            classes, a[1], a[2], a[3])
                      IN  /\ class_info' = IF a[1] THEN classes ELSE class_info
                          /\ EndOfTurn(r.sent,
                                       target_state(state, ev, ignored_mods))
              ELSE /\ class_info' = class_info
                   /\ EndOfTurn(<<>>, target_state(state, ev, ignored_mods))
           /\ UNCHANGED <<ignore_mod, ignored_mods, rawmotion, devices>>

DevicePresenceNotify ==
    \E devchange \in DeviceChanges, device_id \in HotplugIds :
       LET ev == [kind |-> "DevicePresenceNotify", devchange |-> devchange,
                  device_id |-> device_id]
       IN  /\ Receive(ev)
           /\ IF ev.devchange = "Enabled"
              THEN \E classes \in ClassLists, a \in Answers, checks \in BOOLEAN :
                      LET r == snoop_device(rawmotion, checks, ev.device_id,
                                            classes, a[1], a[2], a[3])
                      IN  /\ class_info' = IF a[1] THEN classes ELSE class_info
                          /\ IF r.end = "ok"
                             THEN EndOfTurn(r.sent,
                                      target_state(state, ev, ignored_mods))
                             ELSE /\ reqs' = reqs \o Sent(r.sent, nevents')
                                  /\ state' = state
                                  /\ Fail(SnoopError(r))
              ELSE /\ class_info' = class_info
                   /\ EndOfTurn(<<>>, target_state(state, ev, ignored_mods))
           /\ UNCHANGED <<ignore_mod, ignored_mods, rawmotion, devices>>

MappingNotify ==
    LET ev == [kind |-> "MappingNotify"] IN
    /\ Receive(ev)
    /\ EndOfTurn(<<>>, target_state(state, ev, ignored_mods))
    /\ UNCHANGED <<ignore_mod, ignored_mods, rawmotion, devices, class_info>>

OtherEvent ==
    \E kind \in OtherKinds :
       LET ev == [kind |-> kind] IN
       /\ Receive(ev)
       /\ EndOfTurn(<<>>, target_state(state, ev, ignored_mods))
       /\ UNCHANGED <<ignore_mod, ignored_mods, rawmotion, devices,
                      class_info>>

Next ==
    \/ XFixesQueryVersion
    \/ XiQueryVersion
    \/ ListInputDevices
    \/ EnumerateDevice
    \/ SelectDevicePresence
    \/ WaitForEventFails
    \/ PointerActivity
    \/ DeviceKeyRelease
    \/ DevicePresenceNotify
    \/ MappingNotify
    \/ OtherEvent

Spec == Init /\ [][Next]_vars

(***************************************************************************)
(* snoop_device on its own: one call, for every class list up to           *)
(* MaxClasses classes.  class_info holds the classes the OpenDevice reply  *)
(* will carry, devices the device the call is for.                         *)
(***************************************************************************)
\* base event types a class may report (extension events are 64 .. 127)
EventTypeBases == {64, 126}

ClassUniverse ==
    {Class(k, b) : k \in InputClasses, b \in EventTypeBases}

BoundedClassLists ==
    UNION {[1..n -> ClassUniverse] : n \in 0..MaxClasses}

SnoopDeviceIds == {0, 7, 255}

InitSnoop ==
    /\ pc = "snoop_device"
    /\ err = "none"
    /\ ignore_mod = <<>>
    /\ ignored_mods = 0
    /\ rawmotion \in BOOLEAN
    /\ \E d \in SnoopDeviceIds : devices = <<DevInfo(d, "IsXExtensionPointer")>>
    /\ class_info \in BoundedClassLists
    /\ state = "Shown"
    /\ event = NoEvent
    /\ nevents = 0
    /\ reqs = <<>>

SnoopDevice ==
    /\ pc = "snoop_device"
    /\ \E a \in Answers, checks \in BOOLEAN :
          LET r == snoop_device(rawmotion, checks, Head(devices).device_id,
                                class_info, a[1], a[2], a[3])
          IN  /\ reqs' = Sent(r.sent, 0)
              /\ pc' = "returned"
              /\ err' = IF r.end = "ok" THEN "none" ELSE SnoopError(r)
    /\ UNCHANGED <<ignore_mod, ignored_mods, rawmotion, devices, class_info, state,
                   event, nevents>>

SpecSnoop == InitSnoop /\ [][SnoopDevice]_vars

(***************************************************************************)
(* The fold over args.ignore_mod on its own, for every list of up to       *)
(* MaxMods modifier names.                                                 *)

(***************************************************************************)
(* snoop_device over every corner of its u8 operands: one class per        *)
(* OpenDevice reply, its event_type_base and the device id drawn from the  *)
(* ends and the middle of 0..255.                                          *)
(***************************************************************************)
CodeBases == {0, 127, 254, 255}

CodeDeviceIds == {0, 1, 128, 255}

CodeClasses ==
    {<<Class(k, b)>> : k \in {"Key", "Button", "Valuator", "Other"},
                       b \in CodeBases}

InitCodes ==
    /\ pc = "snoop_device"
    /\ err = "none"
    /\ ignore_mod = <<>>
    /\ ignored_mods = 0
    /\ rawmotion \in BOOLEAN
    /\ \E d \in CodeDeviceIds : devices = <<DevInfo(d, "IsXExtensionKeyboard")>>
    /\ class_info \in CodeClasses
    /\ state = "Shown"
    /\ event = NoEvent
    /\ nevents = 0
    /\ reqs = <<>>

SpecCodes == InitCodes /\ [][SnoopDevice]_vars

(***************************************************************************)
BoundedModLists ==
    UNION {[1..n -> ModNames] : n \in 0..MaxMods}

InitMods ==
    /\ pc = "args"
    /\ err = "none"
    /\ ignore_mod \in BoundedModLists
    /\ ignored_mods = 0
    /\ rawmotion = FALSE
    /\ devices = <<>>
    /\ class_info = <<>>
    /\ state = "Shown"
    /\ event = NoEvent
    /\ nevents = 0
    /\ reqs = <<>>

CombineMods ==
    /\ pc = "args"
    /\ ignored_mods' = IgnoredMods(ignore_mod)
    /\ pc' = "xfixes"
    /\ UNCHANGED <<err, ignore_mod, rawmotion, devices, class_info, state,
                   event, nevents, reqs>>

SpecMods == InitMods /\ [][CombineMods]_vars

(***************************************************************************)
(* The cursor commands sent so far.                                        *)
(***************************************************************************)
IsCursorReq(r) == r.name \in {"ShowCursor", "HideCursor"}

CursorCmds == SelectSeq(reqs, IsCursorReq)

\* the requests sent while the n-th event was processed (n = 0: at startup)
SentInTurn(n) == SelectSeq(reqs, LAMBDA r : r.turn = n)

(***************************************************************************)
(* C1: the cursor commands sent never contain two consecutive commands of  *)
(* the same kind, and the first one is a hide: the command trace reads     *)
(* hide, show, hide, ...                                                   *)
(***************************************************************************)
C1_CommandsAlternate ==
    \A i \in 1..Len(CursorCmds) :
        CursorCmds[i].name = IF i % 2 = 1 THEN "HideCursor" ELSE "ShowCursor"

\* three events, each of which made the loop send a command
C1_Witness ==
    /\ pc = "loop"
    /\ Len(CursorCmds) = 3
    /\ \A i \in 1..3 : CursorCmds[i].ok /\ CursorCmds[i].turn = i

(***************************************************************************)
(* C2: while main() runs, state is Hidden exactly when the last cursor     *)
(* command sent is a hide, and Shown when it is a show or when none has    *)
(* been sent.                                                              *)
(***************************************************************************)
C2_StateMatchesLastCommand ==
    pc # "exit" =>
        /\ state = "Hidden" <=>
              /\ CursorCmds # <<>>
              /\ CursorCmds[Len(CursorCmds)].name = "HideCursor"
        /\ state = "Shown" <=>
              \/ CursorCmds = <<>>
              \/ CursorCmds[Len(CursorCmds)].name = "ShowCursor"

\* the loop has hidden the pointer, shown it again, and goes on
C2_Witness ==
    /\ pc = "loop"
    /\ state = "Shown"
    /\ Len(CursorCmds) = 2
    /\ CursorCmds[2].name = "ShowCursor"

(***************************************************************************)
(* Steps of the loop, as the claims speak of them.                         *)
(***************************************************************************)
\* this step is a loop turn: main() received an event and processed it
Turn == pc = "loop" /\ nevents' = nevents + 1

\* the requests sent in this step
NewReqs == SubSeq(reqs', Len(reqs) + 1, Len(reqs'))

\* this step sent exactly the cursor request `name`, and either the server
\* accepted it and the loop goes on in state `target`, or the server
\* refused it and main() returned
SentOnly(name, target) ==
    /\ Len(NewReqs) = 1
    /\ NewReqs[1].name = name
    /\ NewReqs[1].turn = nevents'
    /\ IF NewReqs[1].ok THEN pc' = "loop" /\ state' = target
       ELSE pc' = "exit"

\* this step sent nothing, and the loop goes on in state `target`
SentNothing(target) ==
    /\ reqs' = reqs
    /\ pc' = "loop"
    /\ state' = target

\* bit k (0 = least significant) of x is set
HasBit(x, k) == (x \div (2 ^ k)) % 2 = 1

\* the modifier state a and the mask b have a bit in common
CommonBit(a, b) == \E k \in 0..15 : HasBit(a, k) /\ HasBit(b, k)

(***************************************************************************)
(* C3: a key release whose modifier state has no bit of the ignored mask   *)
(* sends exactly one hide when the state is Shown and leaves the state     *)
(* Hidden; processed in state Hidden it sends nothing and the state stays  *)
(* Hidden; and no step taken in state Hidden sends a hide.  So a run of    *)
(* such key releases, started in Shown, sends one hide, with the first     *)
(* event.  (A hide the server refuses ends main(), see C10.)               *)
(***************************************************************************)
C3_KeyReleaseHidesOnce ==
    [][ /\ ( /\ Turn
             /\ event'.kind = "DeviceKeyRelease"
             /\ ~CommonBit(event'.state, ignored_mods) )
           => IF state = "Shown" THEN SentOnly("HideCursor", "Hidden")
              ELSE SentNothing("Hidden")
        /\ state = "Hidden"
           => \A i \in 1..Len(NewReqs) : NewReqs[i].name # "HideCursor"
      ]_vars

\* two such key releases in a row: the first one hid the pointer, the
\* second one sent nothing
C3_Witness ==
    /\ pc = "loop"
    /\ nevents >= 2
    /\ event.kind = "DeviceKeyRelease"
    /\ ~CommonBit(event.state, ignored_mods)
    /\ state = "Hidden"
    /\ SentInTurn(nevents) = <<>>
    /\ \E i \in 1..Len(reqs) :
          reqs[i].name = "HideCursor" /\ reqs[i].ok /\ reqs[i].turn = nevents - 1

(***************************************************************************)
(* C4: a key release whose modifier state has a bit in common with the     *)
(* ignored mask leaves the state as it is and sends nothing, in both       *)
(* states; with an empty mask no key release is filtered.                  *)
(***************************************************************************)
C4_IgnoredKeyReleaseDoesNothing ==
    [][ (Turn /\ event'.kind = "DeviceKeyRelease")
        => /\ CommonBit(event'.state, ignored_mods) => SentNothing(state)
           /\ ignored_mods = 0 =>
                 IF state = "Shown" THEN SentOnly("HideCursor", "Hidden")
                 ELSE SentNothing("Hidden")
      ]_vars

\* mask {Shift}: a key release with SHIFT held arrived while the pointer
\* was hidden, and nothing was sent
C4_Witness ==
    /\ pc = "loop"
    /\ ignored_mods = 1
    /\ event.kind = "DeviceKeyRelease"
    /\ event.state = 1
    /\ state = "Hidden"
    /\ SentInTurn(nevents) = <<>>

(***************************************************************************)
(* C5: raw motion, raw button press, device valuator, device motion,       *)
(* device button press and device button release all ask for Shown,        *)
(* whatever rawmotion is: from Hidden exactly one show is sent and the     *)
(* state becomes Shown, from Shown nothing is sent and the state stays.    *)
(***************************************************************************)
C5_PointerEventsShow ==
    [][ ( /\ Turn
          /\ event'.kind \in {"RawMotion", "RawButtonPress", "DeviceValuator",
                              "DeviceMotionNotify", "DeviceButtonPress",
                              "DeviceButtonRelease"} )
        => IF state = "Hidden" THEN SentOnly("ShowCursor", "Shown")
           ELSE SentNothing("Shown")
      ]_vars

\* a legacy device event showed the pointer while raw motion is in use
C5_Witness ==
    /\ pc = "loop"
    /\ rawmotion
    /\ event.kind = "DeviceButtonRelease"
    /\ state = "Shown"
    /\ Len(SentInTurn(nevents)) = 1
    /\ SentInTurn(nevents)[1].name = "ShowCursor"
    /\ SentInTurn(nevents)[1].ok

(***************************************************************************)
(* Class lists and event codes, as the claims speak of them.               *)
(***************************************************************************)
ClassesOfKind(classes, kind) ==
    SelectSeq(classes, LAMBDA c : c.class_id = kind)

\* the code for event type t of device d
Code(d, t) == 256 * d + t

CodeSet(codes) == {codes[i] : i \in 1..Len(codes)}

\* the release codes of the key classes of `classes`, in order
KeyReleaseCodes(d, classes) ==
    LET keys == ClassesOfKind(classes, "Key")
    IN  [i \in 1..Len(keys) |-> Code(d, keys[i].event_type_base + 1)]

\* a device subscription sent in this step: OpenDevice, CloseDevice and
\* SelectExtensionEvent in a row
DeviceSubscribed ==
    /\ Len(NewReqs) >= 3
    /\ NewReqs[1].name = "OpenDevice"
    /\ NewReqs[2].name = "CloseDevice"
    /\ NewReqs[3].name = "SelectExtensionEvent"

(***************************************************************************)
(* C6: with rawmotion true a device subscription, at startup or on         *)
(* hot-plug, carries the key-release codes only, nothing from a valuator   *)
(* or button class; with rawmotion false every valuator class contributes  *)
(* its base code and every button class its base and base + 1 codes.  The  *)
(* loop never changes rawmotion, so hot-plug uses the startup value.       *)
(***************************************************************************)
C6_RawMotionDropsLegacyCodes ==
    [][ /\ DeviceSubscribed =>
              LET d == NewReqs[1].device_id
                  codes == NewReqs[3].classes
              IN  IF rawmotion'
                  THEN codes = KeyReleaseCodes(d, class_info')
                  ELSE /\ \A i \in 1..Len(class_info') :
                             LET c == class_info'[i] IN
                             /\ c.class_id = "Valuator" =>
                                   Code(d, c.event_type_base) \in CodeSet(codes)
                             /\ c.class_id = "Button" =>
                                   {Code(d, c.event_type_base),
                                    Code(d, c.event_type_base + 1)}
                                      \subseteq CodeSet(codes)
                       /\ Len(codes) =
                             Len(ClassesOfKind(class_info', "Key"))
                             + Len(ClassesOfKind(class_info', "Valuator"))
                             + 2 * Len(ClassesOfKind(class_info', "Button"))
        /\ pc \in {"enumerate", "loop"} => rawmotion' = rawmotion
      ]_vars

\* hot-plug under raw motion of a device with a valuator and a key class:
\* the subscription carries the one key-release code
C6_Witness ==
    /\ pc = "loop"
    /\ rawmotion
    /\ event.kind = "DevicePresenceNotify"
    /\ event.devchange = "Enabled"
    /\ class_info = <<Class("Focus", 78), Class("Valuator", 74), Class("Key", 70)>>
    /\ Len(SentInTurn(nevents)) = 3
    /\ SentInTurn(nevents)[3].classes = <<Code(event.device_id, 71)>>

(***************************************************************************)
(* C7: the event list of a device is the concatenation, in class order,    *)
(* of one code (base + 1) per key class, one code (base) per valuator      *)
(* class in legacy mode and none under raw motion, two codes (base, then   *)
(* base + 1) per button class in legacy mode and none under raw motion,    *)
(* and nothing for any other class.  A key-only device yields one code.    *)
(***************************************************************************)
C7_CodesOfClass(raw, d, c) ==
    IF c.class_id = "Key" THEN <<Code(d, c.event_type_base + 1)>>
    ELSE IF c.class_id = "Valuator"
    THEN IF raw THEN <<>> ELSE <<Code(d, c.event_type_base)>>
    ELSE IF c.class_id = "Button"
    THEN IF raw THEN <<>>
         ELSE <<Code(d, c.event_type_base), Code(d, c.event_type_base + 1)>>
    ELSE <<>>

RECURSIVE C7_Concatenation(_, _, _)
C7_Concatenation(raw, d, classes) ==
    IF classes = <<>> THEN <<>>
    ELSE C7_CodesOfClass(raw, d, Head(classes))
            \o C7_Concatenation(raw, d, Tail(classes))

C7_EventListIsConcatenation ==
    \A i \in 1..Len(reqs) :
        reqs[i].name = "SelectExtensionEvent" =>
            /\ reqs[i].classes =
                  C7_Concatenation(rawmotion, Head(devices).device_id, class_info)
            /\ ( /\ Len(class_info) = 1
                 /\ class_info[1].class_id = "Key" ) => Len(reqs[i].classes) = 1

\* legacy mode, a button class followed by a key class: three codes
C7_Witness ==
    /\ pc = "returned"
    /\ err = "none"
    /\ ~rawmotion
    /\ Len(class_info) = 2
    /\ class_info[1].class_id = "Button"
    /\ class_info[2].class_id = "Key"
    /\ Len(reqs) = 3
    /\ Len(reqs[3].classes) = 3

(***************************************************************************)
(* C8: a presence notification with change Enabled for device d runs       *)
(* snoop_device once, for d and with main's rawmotion; the turn sends no   *)
(* show or hide and leaves the state as it is, in both states.             *)
(***************************************************************************)
C8_HotplugSubscribesOnce ==
    [][ ( /\ Turn
          /\ event'.kind = "DevicePresenceNotify"
          /\ event'.devchange = "Enabled" )
        => /\ Len(NewReqs) \in 1..3
           /\ NewReqs[1].name = "OpenDevice"
           /\ NewReqs[1].device_id = event'.device_id
           /\ Len(NewReqs) >= 2 =>
                 /\ NewReqs[2].name = "CloseDevice"
                 /\ NewReqs[2].device_id = event'.device_id
           /\ Len(NewReqs) = 3 =>
                 /\ NewReqs[3].name = "SelectExtensionEvent"
                 /\ Len(NewReqs[3].classes) =
                       Len(ClassesOfKind(class_info', "Key"))
                       + IF rawmotion THEN 0
                         ELSE Len(ClassesOfKind(class_info', "Valuator"))
                              + 2 * Len(ClassesOfKind(class_info', "Button"))
           /\ state' = state
           /\ rawmotion' = rawmotion
      ]_vars

\* device 7 was enabled while the pointer was hidden: one subscription,
\* and the pointer is still hidden
C8_Witness ==
    /\ pc = "loop"
    /\ state = "Hidden"
    /\ event = [kind |-> "DevicePresenceNotify", devchange |-> "Enabled",
                device_id |-> 7]
    /\ Len(SentInTurn(nevents)) = 3
    /\ \A i \in 1..3 : SentInTurn(nevents)[i].ok
    /\ SentInTurn(nevents)[1] =
          [name |-> "OpenDevice", device_id |-> 7, ok |-> TRUE, turn |-> nevents]

(***************************************************************************)
(* C9, as claimed: when a request of snoop_device fails during a hot-plug  *)
(* re-subscription, the main loop is not terminated.                       *)
(***************************************************************************)
HotplugRequestFailed ==
    \E i \in 1..Len(reqs) :
        /\ reqs[i].turn >= 1
        /\ reqs[i].name \in {"OpenDevice", "CloseDevice", "SelectExtensionEvent"}
        /\ ~reqs[i].ok

C9_LoopSurvivesHotplugFailure ==
    HotplugRequestFailed => pc = "loop"

(***************************************************************************)
(* C9, amended: a request of snoop_device that fails during a hot-plug     *)
(* re-subscription is the last request main() sends: the error leaves the  *)
(* loop through `?`, main() returns with it in the turn of that            *)
(* notification, and no further event is received.                         *)
(***************************************************************************)
C9_HotplugFailureEndsMain ==
    \A i \in 1..Len(reqs) :
        ( /\ reqs[i].turn >= 1
          /\ reqs[i].name \in {"OpenDevice", "CloseDevice", "SelectExtensionEvent"}
          /\ ~reqs[i].ok )
        => /\ i = Len(reqs)
           /\ pc = "exit"
           /\ err = reqs[i].name
           /\ nevents = reqs[i].turn
           /\ event.kind = "DevicePresenceNotify"
           /\ event.devchange = "Enabled"

\* CloseDevice was refused during the re-subscription of a second event
C9_Witness ==
    /\ pc = "exit"
    /\ err = "CloseDevice"
    /\ nevents = 2
    /\ event.kind = "DevicePresenceNotify"
    /\ Len(SentInTurn(2)) = 2
    /\ ~SentInTurn(2)[2].ok

(***************************************************************************)
(* C10: the loop has no retry and no graceful exit.  main() leaves the     *)
(* loop only with an error: of wait_for_event, or of the request it sent   *)
(* last.  A refused show or hide is the last request sent, is not sent     *)
(* again, and state keeps the value it had before; once main() has         *)
(* returned nothing more is received or sent.                              *)
(***************************************************************************)
C10_FailedCommandIsFinal ==
    \A i \in 1..Len(reqs) :
        (IsCursorReq(reqs[i]) /\ ~reqs[i].ok)
        => /\ i = Len(reqs)
           /\ pc = "exit"
           /\ err = reqs[i].name
           /\ nevents = reqs[i].turn
           /\ state = IF reqs[i].name = "HideCursor" THEN "Shown" ELSE "Hidden"

C10_LoopStep ==
    /\ pc = "exit" => FALSE
    /\ pc = "loop" =>
          \/ pc' = "loop" /\ err' = "none"
          \/ /\ pc' = "exit"
             /\ state' = state
             /\ \/ /\ err' = "wait_for_event"
                   /\ reqs' = reqs
                   /\ nevents' = nevents
                \/ /\ NewReqs # <<>>
                   /\ ~NewReqs[Len(NewReqs)].ok
                   /\ err' = NewReqs[Len(NewReqs)].name
                   /\ nevents' = nevents + 1

C10_NoRetryNoGracefulExit ==
    /\ [](C10_FailedCommandIsFinal /\ (pc = "exit" => err # "none"))
    /\ [][C10_LoopStep]_vars

\* the server refused a show: main() has returned and state is still Hidden
C10_Witness ==
    /\ pc = "exit"
    /\ err = "ShowCursor"
    /\ state = "Hidden"
    /\ reqs[Len(reqs)].name = "ShowCursor"
    /\ ~reqs[Len(reqs)].ok

(***************************************************************************)
(* C11: the XFixes QueryVersion is the first request main() sends and is   *)
(* sent once; when it fails or reports a major version below 4, main()     *)
(* returns with an error and has sent nothing else: no XiQueryVersion, no  *)
(* enumeration, no subscription, no show or hide.                          *)
(***************************************************************************)
C11_XFixesVersionFirst ==
    /\ pc # "xfixes" => reqs # <<>>
    /\ \A i \in 1..Len(reqs) : (reqs[i].name = "QueryVersion") <=> (i = 1)
    /\ ( /\ reqs # <<>>
         /\ \/ ~reqs[1].ok
            \/ reqs[1].major_version < 4 )
       => /\ Len(reqs) = 1
          /\ pc = "exit"
          /\ err # "none"

\* the server answered with major version 3: main() has returned
C11_Witness ==
    /\ pc = "exit"
    /\ err = "No compatible Xfixes version available"
    /\ Len(reqs) = 1
    /\ reqs[1].ok
    /\ reqs[1].major_version = 3

(***************************************************************************)
(* C12: a failed XiQueryVersion does not end startup: rawmotion is false,  *)
(* no XiSelectEvents is sent and ListInputDevices comes next.  After a     *)
(* successful query exactly one XiSelectEvents is sent, before             *)
(* ListInputDevices.  rawmotion is true exactly when an XiSelectEvents was *)
(* sent and accepted.                                                      *)
(***************************************************************************)
RequestsNamed(name) == {i \in 1..Len(reqs) : reqs[i].name = name}

C12_XiQueryFailureTolerated ==
    /\ Cardinality(RequestsNamed("XiQueryVersion")) <= 1
    /\ Cardinality(RequestsNamed("XiSelectEvents")) <= 1
    /\ err # "XiQueryVersion"
    /\ \A i \in RequestsNamed("XiQueryVersion") :
          IF reqs[i].ok
          THEN /\ RequestsNamed("XiSelectEvents") = {i + 1}
               /\ \A j \in RequestsNamed("ListInputDevices") : j = i + 2
          ELSE /\ RequestsNamed("XiSelectEvents") = {}
               /\ ~rawmotion
               /\ IF Len(reqs) = i THEN pc = "list_devices"
                  ELSE reqs[i + 1].name = "ListInputDevices"
    /\ rawmotion <=> \E j \in RequestsNamed("XiSelectEvents") : reqs[j].ok

\* the query failed, and startup went on to subscribe a device in legacy
\* mode and reached the loop
C12_Witness ==
    /\ pc = "loop"
    /\ ~rawmotion
    /\ ~reqs[2].ok
    /\ reqs[2].name = "XiQueryVersion"
    /\ RequestsNamed("OpenDevice") # {}

(***************************************************************************)
(* C13: ignored_mods is the bitwise union of the masks of the names given: *)
(* a bit is set in it exactly when it is set in the mask of one of them.   *)
(* The mask of All is the union of the masks of Shift, Caps, Ctrl, Mod1,   *)
(* Mod2, Mod3 and Mod4, and no list of names, All included, yields a mouse *)
(* button bit (BUTTON1 .. BUTTON5 are bits 8 .. 12).                       *)
(***************************************************************************)
NamedMods == {"Shift", "Caps", "Ctrl", "Mod1", "Mod2", "Mod3", "Mod4"}

C13_MaskIsUnionWithoutButtons ==
    pc # "args" =>
        /\ \A k \in 0..15 :
              HasBit(ignored_mods, k) <=>
                 \E i \in 1..Len(ignore_mod) : HasBit(Mod(ignore_mod[i]), k)
        /\ \A k \in 0..15 :
              HasBit(Mod("All"), k) <=> \E m \in NamedMods : HasBit(Mod(m), k)
        /\ \A k \in 8..12 : ~HasBit(ignored_mods, k)

\* All given together with a single name
C13_Witness ==
    /\ pc = "xfixes"
    /\ ignore_mod = <<"All", "Shift">>
    /\ ignored_mods = 127

(***************************************************************************)
(* C14: one event per loop turn, processed when it is received.  A turn    *)
(* sends at most one cursor request, as its last request; state changes    *)
(* only in a turn that sent the matching request and had it accepted, and  *)
(* an accepted cursor request always comes with the change of state it     *)
(* was decided for, in the same turn: nothing is deferred to a later       *)
(* event, reordered or batched.  Outside a turn nothing touches the        *)
(* cursor or the state.                                                    *)
(***************************************************************************)
NewCursorReqs == SelectSeq(NewReqs, IsCursorReq)

C14_TurnStep ==
    IF Turn
    THEN /\ \A i \in 1..Len(NewReqs) : NewReqs[i].turn = nevents'
         /\ Len(NewCursorReqs) <= 1
         /\ NewCursorReqs # <<>> => IsCursorReq(NewReqs[Len(NewReqs)])
         /\ state' # state =>
               /\ Len(NewCursorReqs) = 1
               /\ NewCursorReqs[1].ok
               /\ NewCursorReqs[1].name =
                     IF state' = "Hidden" THEN "HideCursor" ELSE "ShowCursor"
         /\ (NewCursorReqs # <<>> /\ NewCursorReqs[1].ok) => state' # state
    ELSE /\ NewCursorReqs = <<>>
         /\ state' = state
         /\ nevents' = nevents

C14_OneCommandPerEvent == [][C14_TurnStep]_vars

\* three events: the first hid the pointer, the second sent nothing, the
\* third showed it again
C14_Witness ==
    /\ pc = "loop"
    /\ nevents = 3
    /\ state = "Shown"
    /\ Len(CursorCmds) = 2
    /\ CursorCmds[1].turn = 1
    /\ CursorCmds[2].turn = 3

(***************************************************************************)
(* C15: a call of snoop_device that returns Ok has sent exactly one        *)
(* SelectExtensionEvent, also when the event list is empty (no key class,  *)
(* and no valuator or button class outside raw motion): the request is     *)
(* then sent with the empty list.                                          *)
(***************************************************************************)
C15_NoCodesExpected ==
    /\ ClassesOfKind(class_info, "Key") = <<>>
    /\ \/ rawmotion
       \/ /\ ClassesOfKind(class_info, "Valuator") = <<>>
          /\ ClassesOfKind(class_info, "Button") = <<>>

C15_SubscriptionAlwaysSent ==
    (pc = "returned" /\ err = "none") =>
        /\ Cardinality(RequestsNamed("SelectExtensionEvent")) = 1
        /\ reqs[Len(reqs)].name = "SelectExtensionEvent"
        /\ reqs[Len(reqs)].ok
        /\ C15_NoCodesExpected <=> reqs[Len(reqs)].classes = <<>>

\* raw motion, a device with a button and a valuator class only: the
\* subscription was sent with no codes
C15_Witness ==
    /\ pc = "returned"
    /\ err = "none"
    /\ rawmotion
    /\ Len(class_info) = 2
    /\ class_info[1].class_id = "Button"
    /\ class_info[2].class_id = "Valuator"
    /\ reqs[3] = [name |-> "SelectExtensionEvent", classes |-> <<>>,
                  ok |-> TRUE, turn |-> 0]

(***************************************************************************)
(* C16: snoop_device sends OpenDevice, CloseDevice, SelectExtensionEvent   *)
(* in this order.  An accepted OpenDevice is followed at once by the       *)
(* CloseDevice of the same device, so no device stays open across loop     *)
(* turns; after a refused OpenDevice nothing more is sent, and after a     *)
(* refused CloseDevice no SelectExtensionEvent is sent.                    *)
(***************************************************************************)
IsDeviceSelect(r) ==
    r.name = "SelectExtensionEvent" /\ r.classes # <<DEVICE_PRESENCE>>

C16_OpenCloseSubscribe ==
    \A i \in 1..Len(reqs) :
        /\ reqs[i].name = "OpenDevice" =>
              IF reqs[i].ok
              THEN /\ i < Len(reqs)
                   /\ reqs[i + 1].name = "CloseDevice"
                   /\ reqs[i + 1].device_id = reqs[i].device_id
                   /\ reqs[i + 1].turn = reqs[i].turn
              ELSE i = Len(reqs) /\ pc = "exit"
        /\ reqs[i].name = "CloseDevice" =>
              /\ i > 1
              /\ reqs[i - 1].name = "OpenDevice"
              /\ reqs[i - 1].ok
              /\ IF reqs[i].ok
                 THEN /\ i < Len(reqs)
                      /\ IsDeviceSelect(reqs[i + 1])
                      /\ reqs[i + 1].turn = reqs[i].turn
                 ELSE i = Len(reqs) /\ pc = "exit"
        /\ IsDeviceSelect(reqs[i]) =>
              /\ i > 2
              /\ reqs[i - 1].name = "CloseDevice"
              /\ reqs[i - 1].ok
              /\ reqs[i - 2].name = "OpenDevice"

\* two listed devices and a hot-plugged one, each opened, closed and
\* subscribed
C16_Witness ==
    /\ pc = "loop"
    /\ Cardinality(RequestsNamed("OpenDevice")) = 3
    /\ Cardinality(RequestsNamed("CloseDevice")) = 3
    /\ \E i \in RequestsNamed("OpenDevice") : reqs[i].turn >= 1

(***************************************************************************)
(* C17: the device-presence subscription is sent at most once, during      *)
(* start-up (before the first event), after the subscription of every      *)
(* listed extension keyboard and pointer has succeeded; every later        *)
(* request belongs to a loop turn; the loop is entered only after it.      *)
(* When a request of a listed device fails, it is not sent and the loop    *)
(* is never entered.                                                       *)
(***************************************************************************)
PresenceSelects ==
    {i \in RequestsNamed("SelectExtensionEvent") :
        reqs[i].classes = <<DEVICE_PRESENCE>>}

StartupDeviceReqs ==
    {i \in 1..Len(reqs) :
        /\ reqs[i].turn = 0
        /\ \/ reqs[i].name \in {"OpenDevice", "CloseDevice"}
           \/ IsDeviceSelect(reqs[i])}

\* the ids of the extension keyboards and pointers of a device list
RECURSIVE ExtensionInputIds(_)
ExtensionInputIds(list) ==
    IF list = <<>> THEN <<>>
    ELSE LET rest == ExtensionInputIds(Tail(list)) IN
         IF Head(list).device_use
               \in {"IsXExtensionKeyboard", "IsXExtensionPointer"}
         THEN <<Head(list).device_id>> \o rest
         ELSE rest

C17_PresenceSubscribedOnce ==
    /\ Cardinality(PresenceSelects) <= 1
    /\ (pc = "loop" \/ nevents > 0) =>
          \E i \in PresenceSelects : reqs[i].ok
    /\ \A i \in PresenceSelects :
          /\ reqs[i].turn = 0
          /\ \A j \in StartupDeviceReqs : j < i /\ reqs[j].ok
          /\ \A l \in RequestsNamed("ListInputDevices") :
                Cardinality({j \in StartupDeviceReqs : IsDeviceSelect(reqs[j])})
                   = Len(ExtensionInputIds(reqs[l].devices))
          /\ \A j \in 1..Len(reqs) : j > i => reqs[j].turn >= 1
    /\ (\E j \in StartupDeviceReqs : ~reqs[j].ok) =>
          /\ PresenceSelects = {}
          /\ pc = "exit"
          /\ nevents = 0

\* two listed devices subscribed, then device presence, then a hot-plugged
\* device subscribed in the loop
C17_Witness ==
    /\ Cardinality(PresenceSelects) = 1
    /\ Cardinality(StartupDeviceReqs) = 6
    /\ nevents = 2
    /\ pc = "loop"
    /\ \E j \in RequestsNamed("SelectExtensionEvent") : reqs[j].turn = 2

(***************************************************************************)
(* C18: the start-up enumeration calls snoop_device once for each listed   *)
(* device whose role is extension keyboard or extension pointer, in the    *)
(* order of the list, and for no device of another role: the devices       *)
(* opened at start-up are, in order, those devices of the reply (all of    *)
(* them once the enumeration is over, a prefix of them before).            *)
(***************************************************************************)
StartupOpens ==
    SelectSeq(reqs, LAMBDA r : r.name = "OpenDevice" /\ r.turn = 0)

OpenedIds == [k \in 1..Len(StartupOpens) |-> StartupOpens[k].device_id]

C18_EnumerationFollowsList ==
    \A i \in RequestsNamed("ListInputDevices") :
        LET ids == ExtensionInputIds(reqs[i].devices) IN
        /\ Len(OpenedIds) <= Len(ids)
        /\ OpenedIds = SubSeq(ids, 1, Len(OpenedIds))
        /\ (pc = "enumerate" /\ err = "none") =>
              Len(OpenedIds) = Len(ids) - Len(ExtensionInputIds(devices))
        /\ PresenceSelects # {} => OpenedIds = ids

\* the reply listed the extension keyboard 4, the core keyboard 3 and the
\* extension pointer 5: devices 4 and 5 were opened, in this order
C18_Witness ==
    /\ pc = "loop"
    /\ \E i \in RequestsNamed("ListInputDevices") :
          /\ Len(reqs[i].devices) = 3
          /\ reqs[i].devices[2].device_use = "IsXKeyboard"
    /\ OpenedIds = <<4, 5>>

(***************************************************************************)
(* C19: a MappingNotify, a DevicePresenceNotify whose change is not        *)
(* Enabled, and an event of any other kind leave the state as it is, send  *)
(* no request, and the loop goes on.                                       *)
(***************************************************************************)
C19_IgnoredEvent ==
    \/ event'.kind = "MappingNotify"
    \/ event'.kind = "DevicePresenceNotify" /\ event'.devchange # "Enabled"
    \/ event'.kind \notin PointerKinds \cup {"DeviceKeyRelease",
                              "DevicePresenceNotify", "MappingNotify"}

C19_IgnoredEventsDoNothing ==
    [][ (Turn /\ C19_IgnoredEvent) =>
           /\ NewReqs = <<>>
           /\ state' = state
           /\ pc' = "loop"
           /\ err' = err
      ]_vars

\* the pointer was hidden by the first event; the next two events sent
\* nothing, and the last of them was a MappingNotify or a key press
C19_Witness ==
    /\ pc = "loop"
    /\ state = "Hidden"
    /\ nevents = 3
    /\ event.kind \in {"MappingNotify", "DeviceKeyPress"}
    /\ Len(SentInTurn(3)) = 0
    /\ Len(SentInTurn(2)) = 0

(***************************************************************************)
(* C20, as claimed: for every device id d and every base event type b in   *)
(* 0..255, building the codes of a class does not overflow, and every code *)
(* of the subscription request is below 2^16, has d as its high 8 bits and *)
(* the intended event type as its low 8 bits: b for a press or valuator    *)
(* code, b + 1 for a release code.                                         *)
(***************************************************************************)
\* the event types the one class of class_info asks for, in push order
IntendedTypes ==
    LET c == class_info[1] IN
    CASE c.class_id = "Key" -> <<c.event_type_base + 1>>
      [] c.class_id = "Valuator" ->
            IF rawmotion THEN <<>> ELSE <<c.event_type_base>>
      [] c.class_id = "Button" ->
            IF rawmotion THEN <<>>
            ELSE <<c.event_type_base, c.event_type_base + 1>>
      [] OTHER -> <<>>

CodesPacked(r) ==
    /\ Len(r.classes) = Len(IntendedTypes)
    /\ \A k \in 1..Len(r.classes) :
          /\ r.classes[k] < 65536
          /\ r.classes[k] \div 256 = Head(devices).device_id
          /\ r.classes[k] % 256 = IntendedTypes[k]

C20_EveryBasePacks ==
    pc = "returned" =>
        /\ err # "panic"
        /\ \A i \in RequestsNamed("SelectExtensionEvent") : CodesPacked(reqs[i])

\* C20 below the last base: as long as no release code is computed from
\* base 255, the codes are packed as claimed
C20_BasesBelow255Pack ==
    (pc = "returned" /\ \A k \in 1..Len(IntendedTypes) : IntendedTypes[k] < 256) =>
        /\ err # "panic"
        /\ \A i \in RequestsNamed("SelectExtensionEvent") : CodesPacked(reqs[i])

\* the key class of device 255 has base 255, the build has no overflow
\* checks: the release code sent is 255 * 256 + 0
C20_Witness ==
    /\ pc = "returned"
    /\ class_info = <<Class("Key", 255)>>
    /\ Head(devices).device_id = 255
    /\ \E i \in RequestsNamed("SelectExtensionEvent") :
          reqs[i].classes = <<65280>>

\* the same class in a build with overflow checks: base + 1 panics after
\* OpenDevice, nothing else is sent
C20_PanicWitness ==
    /\ pc = "returned"
    /\ class_info = <<Class("Key", 255)>>
    /\ err = "panic"
    /\ Len(reqs) = 1

====
